---- MODULE Spec2Model ----
(***************************************************************************)
(* A model of flight_search_amadeus: the Offer Fetcher                     *)
(* (amadeusOperator.py, class AmadeusOperator) and the Offer Normalizer    *)
(* (flightOfferProcessor.py, class FlightOfferProcessor).                  *)
(*                                                                         *)
(* Text is a sequence of one-character strings, so that parsing and        *)
(* formatting are computed character by character.  Prices are fixed-point *)
(* numbers counted in 1/Unit.  Dates are day numbers.                      *)
(***************************************************************************)
EXTENDS Integers, Sequences, FiniteSets, TLC

VARIABLES
    fs,         \* the file system: path -> Absent, or the file's content
    today,      \* datetime.today().date()
    pc,         \* "idle" | "returned" | "range" (in get_flights_within_dates' loop)
    current_date, end_date,   \* get_flights_within_dates' locals
    ret,        \* what the last get_flight_offers call returned
    last,       \* the last get_flight_offers call: its date and what it printed
    provided,   \* the provider's offer list in that call (None when it gave none)
    queries,    \* the dates sent to the provider since the running operation began
    visited,    \* the dates get_flight_offers was called with by the running loop
    start_date, \* the running loop's first date
    base,       \* the raw file when the running loop began
    days,       \* per visited day of the running loop: whether it should have
                \* succeeded, and the rows it should have added
    df,         \* FlightOfferProcessor.df: NoDf before __init__, None, or a table
    done,       \* how many of process()'s eight steps have been applied to df
    error,      \* the exception that ended the program, or "none"
    saves,      \* path -> number of save_csv calls
    writes      \* path -> which of those calls (first, second, ...) wrote the file

vars == <<fs, today, pc, current_date, end_date, ret, last, provided, queries,
          visited, start_date, base, days, df, done, error, saves, writes>>

fetchVars == <<today, pc, current_date, end_date, ret, last, provided, queries,
               visited, start_date, base, days>>
normVars == <<df, done, error, saves, writes>>

---------------------------------------------------------------------------
(* Bounds *)

MaxOffers == 2      \* offers in one provider response
MaxRows == 2        \* rows the fetch specification lets the raw file hold
MaxLines == 3       \* lines of the raw file the Normalizer starts from
MaxSaves == 2       \* save_csv calls per path
MaxDate == 2        \* dates are 0..MaxDate

(* Program constants *)

max_price == 400    \* get_flight_offers: max_price=400

Unit == 100 * 100   \* fixed-point scale of a price

---------------------------------------------------------------------------
(* Values *)

Absent == [exists |-> FALSE, lines |-> <<>>]     \* no file at the path
File(lines) == [exists |-> TRUE, lines |-> lines]
None == [some |-> FALSE, list |-> <<>>]          \* Python's None, as a returned value
Some(list) == [some |-> TRUE, list |-> list]
ValueError == [ok |-> FALSE, v |-> 0]            \* float() raised ValueError
Float(v) == [ok |-> TRUE, v |-> v]
ResponseError == [error |-> TRUE, data |-> <<>>] \* the provider's error response
Response(data) == [error |-> FALSE, data |-> data]

Dates == 0..MaxDate
Today == MaxDate - 1        \* the day the program runs: dates lie on both sides

RAW == "raw_offers_back.csv"
REPORT == "offers_back.csv"
Paths == {RAW, REPORT}

Digits == <<"0", "1", "2", "3", "4", "5", "6", "7", "8", "9">>
IsDigit(c) == \E i \in 1..10 : Digits[i] = c
DigitVal(c) == (CHOOSE i \in 1..10 : Digits[i] = c) - 1

RECURSIVE DigitsValue(_)
DigitsValue(s) ==
    IF s = <<>> THEN 0
    ELSE DigitsValue(SubSeq(s, 1, Len(s) - 1)) * 10 + DigitVal(s[Len(s)])

AllDigits(s) == \A i \in 1..Len(s) : IsDigit(s[i])

RECURSIVE Pow10(_)
Pow10(n) == IF n = 0 THEN 1 ELSE 10 * Pow10(n - 1)

(* float(text) on decimal text "ddd" or "ddd.dd" (at most four decimals);   *)
(* any other text raises ValueError.                                       *)
ParseFloat(s) ==
    LET dots == {i \in 1..Len(s) : s[i] = "."}
        p == IF dots = {} THEN Len(s) + 1 ELSE CHOOSE i \in dots : \A j \in dots : i <= j
        ip == SubSeq(s, 1, p - 1)
        fp == SubSeq(s, p + 1, Len(s))
    IN  IF AllDigits(ip) /\ AllDigits(fp) /\ Len(ip) + Len(fp) > 0 /\ Len(fp) <= 4
        THEN Float(DigitsValue(ip) * Unit + DigitsValue(fp) * Pow10(4 - Len(fp)))
        ELSE ValueError

---------------------------------------------------------------------------
(* The provider's data *)

(* "2025-01-03T10:00:00" *)
At == <<"2", "0", "2", "5", "-", "0", "1", "-", "0", "3", "T",
        "1", "0", ":", "0", "0", ":", "0", "0">>

Seg(o, d, dur) ==
    [departure |-> [iataCode |-> o, at |-> At],
     arrival |-> [iataCode |-> d],
     duration |-> dur]

PT9H45M == <<"P", "T", "9", "H", "4", "5", "M">>
PT2H30M == <<"P", "T", "2", "H", "3", "0", "M">>
PT2H == <<"P", "T", "2", "H">>
PT26H5M == <<"P", "T", "2", "6", "H", "5", "M">>

Direct == [duration |-> PT9H45M, segments |-> <<Seg("JFK", "TLV", PT9H45M)>>]
OneStop == [duration |-> PT9H45M,
            segments |-> <<Seg("JFK", "ATH", PT2H30M), Seg("ATH", "TLV", PT2H)>>]
TwoStops == [duration |-> PT26H5M,
             segments |-> <<Seg("JFK", "LHR", PT9H45M), Seg("LHR", "ATH", PT2H30M),
                            Seg("ATH", "TLV", PT2H)>>]

T350 == <<"3", "5", "0", ".", "0", "0">>
T400 == <<"4", "0", "0", ".", "0", "0">>
T400_01 == <<"4", "0", "0", ".", "0", "1">>
Tna == <<"n", "/", "a">>

Offer(total, currency, itinerary) ==
    [price |-> [total |-> total, currency |-> currency],
     itineraries |-> <<itinerary>>]

(* the offers the provider answers with *)
Offers == {Offer(T350, "EUR", Direct), Offer(T400, "EUR", OneStop),
           Offer(T350, "USD", OneStop), Offer(T400_01, "EUR", Direct),
           Offer(Tna, "EUR", OneStop), Offer(T350, "EUR", TwoStops)}

(* float() of the totals above, computed once *)
Totals == {T350, T400, T400_01, Tna}
FloatOf == [t \in Totals |-> ParseFloat(t)]
float(s) == FloatOf[s]

SeqsUpTo(S, n) == UNION {[1..k -> S] : k \in 0..n}

OfferLists == SeqsUpTo(Offers, MaxOffers)

---------------------------------------------------------------------------
(* AmadeusOperator._add_offers_to_df *)

PriceTooHighInverted(total_price, ceiling) == total_price.v < ceiling * Unit

PriceTooHigh(total_price, ceiling) == total_price.v > ceiling * Unit

NumOfStops(segments) == Len(segments) - 1

SecondLegFromFirstSegment(segments, num_of_stops) ==
    IF num_of_stops > 0
    THEN <<segments[1].departure.iataCode, segments[1].arrival.iataCode,
           segments[1].duration>>
    ELSE <<"", "", <<>>>>

(* 'IATA1_Origin', 'IATA1_Destination', 'Duration1' of offer_to_add *)
SecondLeg(segments, num_of_stops) ==
    IF num_of_stops > 0
    THEN <<segments[2].departure.iataCode, segments[2].arrival.iataCode,
           segments[2].duration>>
    ELSE <<"", "", <<>>>>

(* offer_to_add, in the column order to_csv writes *)
OfferToAdd(offer, total_price) ==
    LET itinerary == offer.itineraries[1]
        segments == itinerary.segments
        num_of_stops == NumOfStops(segments)
        first == <<offer.price.currency, total_price.v, segments[1].departure.at,
                   num_of_stops, segments[1].departure.iataCode,
                   segments[1].arrival.iataCode, segments[1].duration>>
    IN  first \o SecondLeg(segments, num_of_stops) \o <<itinerary.duration>>

RECURSIVE AddOffersFrom(_, _, _, _)
AddOffersFrom(rows, offer_lst, ceiling, i) ==
    IF i > Len(offer_lst) THEN rows
    ELSE LET offer == offer_lst[i]
             total_price == float(offer.price.total)
         IN  IF ~total_price.ok
             THEN AddOffersFrom(rows, offer_lst, ceiling, i + 1)
             ELSE IF PriceTooHigh(total_price, ceiling)
             THEN AddOffersFrom(rows, offer_lst, ceiling, i + 1)
             ELSE IF NumOfStops(offer.itineraries[1].segments) > 1
             THEN AddOffersFrom(rows, offer_lst, ceiling, i + 1)
             ELSE AddOffersFrom(Append(rows, OfferToAdd(offer, total_price)),
                                offer_lst, ceiling, i + 1)

_add_offers_to_df(rows, offer_lst, ceiling) == AddOffersFrom(rows, offer_lst, ceiling, 1)

---------------------------------------------------------------------------
(* Files *)

Content(f) == f.lines

(* df.to_csv(filepath, mode='a', header=False, index=False): the file is   *)
(* created when absent; a frame without rows adds no line.                 *)
AppendCsv(f, rows) == File(Content(f) \o rows)

---------------------------------------------------------------------------
(* AmadeusOperator.get_flight_offers *)

IsPastOrToday(departure_date, today_date) == departure_date <= today_date

IsPast(departure_date, today_date) == departure_date < today_date

ReturnsAccepted(offer_lst, rows) ==
    Some(SelectSeq(offer_lst, LAMBDA o : float(o.price.total).ok
                                         /\ ~PriceTooHigh(float(o.price.total), max_price)
                                         /\ NumOfStops(o.itineraries[1].segments) <= 1))

Returned(offer_lst, rows) == Some(offer_lst)

(* the rows the call should add, stated on the offers rather than by the loop *)
Accepted(offer) ==
    /\ float(offer.price.total).ok
    /\ float(offer.price.total).v <= max_price * Unit
    /\ Len(offer.itineraries[1].segments) <= 2

RECURSIVE RowsOf(_)
RowsOf(offer_lst) ==
    IF offer_lst = <<>> THEN <<>>
    ELSE <<OfferToAdd(Head(offer_lst), float(Head(offer_lst).price.total))>>
         \o RowsOf(Tail(offer_lst))

AcceptedRows(offer_lst) == RowsOf(SelectSeq(offer_lst, Accepted))

(* One call.  `answer` is the provider's: ResponseError or a Response.     *)
(* The outcome is [ret, fs, out, asked, rows]: out is what the call        *)
(* printed, asked whether the provider was called.                         *)
GetFlightOffers(departure_date, filepath, answer) ==
    IF IsPast(departure_date, today)
    THEN [ret |-> None, fs |-> fs, out |-> "Error: Departure date is in the past.",
          asked |-> FALSE]
    ELSE IF answer.error
    THEN [ret |-> None, fs |-> fs, out |-> "An error occurred", asked |-> TRUE]
    ELSE LET offer_lst == answer.data
             rows == _add_offers_to_df(<<>>, offer_lst, max_price)
         IN  [ret |-> Returned(offer_lst, rows),
              fs |-> [fs EXCEPT ![filepath] = AppendCsv(fs[filepath], rows)],
              out |-> "", asked |-> TRUE]

(* the offer lists that add at most k rows *)
ListsAdding == [k \in 0..MaxRows |-> {l \in OfferLists : Len(AcceptedRows(l)) <= k}]

(* the provider's answers that keep the raw file within MaxRows *)
Answers(filepath) ==
    {ResponseError} \cup
    {Response(l) : l \in ListsAdding[MaxRows - Len(Content(fs[filepath]))]}

Outcome(out) ==
    IF out = "" THEN "ok" ELSE IF out = "An error occurred" THEN "error" ELSE "past"

NoCall == [date |-> -1, outcome |-> "none", absent |-> TRUE]

Call(d, r) == [date |-> d, outcome |-> Outcome(r.out), absent |-> ~r.ret.some]

(* a call of get_flight_offers by the program; pc = "returned" until the   *)
(* caller goes on                                                          *)
get_flight_offers ==
    /\ pc = "idle"
    /\ \E d \in Dates : \E a \in Answers(RAW) :
        LET r == GetFlightOffers(d, RAW, a)
        IN  /\ fs' = r.fs
            /\ ret' = r.ret
            /\ last' = Call(d, r)
            /\ provided' = IF a.error \/ d < today THEN None ELSE Some(a.data)
            /\ queries' = IF r.asked THEN <<d>> ELSE <<>>
    /\ pc' = "returned"
    /\ base' = fs[RAW]
    /\ UNCHANGED <<today, current_date, end_date, visited, start_date, days>>
    /\ UNCHANGED normVars

(* the caller drops the returned value *)
Returned_dropped ==
    /\ pc = "returned"
    /\ pc' = "idle"
    /\ ret' = None
    /\ provided' = None
    /\ last' = NoCall
    /\ queries' = <<>>
    /\ base' = Absent
    /\ UNCHANGED <<fs, today, current_date, end_date, visited, start_date, days>>
    /\ UNCHANGED normVars

---------------------------------------------------------------------------
(* AmadeusOperator.get_flights_within_dates *)

NextDateSkips(d) == d + 2

NextDate(d) == d + 1

(* the call: current_date = start_date *)
get_flights_within_dates ==
    /\ pc = "idle"
    /\ \E s \in Dates, e \in Dates :
        /\ current_date' = s
        /\ start_date' = s
        /\ end_date' = e
    /\ pc' = "range"
    /\ base' = fs[RAW]
    /\ visited' = <<>>
    /\ days' = <<>>
    /\ UNCHANGED <<fs, today, ret, last, provided, queries>>
    /\ UNCHANGED normVars

(* one turn of the loop: the call's result is dropped *)
WithinDatesTurn ==
    /\ pc = "range"
    /\ current_date <= end_date
    /\ \E a \in Answers(RAW) :
        LET r == GetFlightOffers(current_date, RAW, a)
        IN  /\ fs' = r.fs
            /\ last' = Call(current_date, r)
            /\ queries' = IF r.asked THEN Append(queries, current_date) ELSE queries
            /\ days' = Append(days, IF a.error \/ current_date < today
                                    THEN [ok |-> FALSE, rows |-> <<>>]
                                    ELSE [ok |-> TRUE, rows |-> AcceptedRows(a.data)])
    /\ visited' = Append(visited, current_date)
    /\ current_date' = NextDate(current_date)
    /\ UNCHANGED <<today, pc, end_date, ret, provided, start_date, base>>
    /\ UNCHANGED normVars

(* the loop's exit and the return: the call's locals are gone *)
WithinDatesReturn ==
    /\ pc = "range"
    /\ ~(current_date <= end_date)
    /\ pc' = "idle"
    /\ current_date' = 0
    /\ end_date' = 0
    /\ start_date' = 0
    /\ base' = Absent
    /\ visited' = <<>>
    /\ days' = <<>>
    /\ queries' = <<>>
    /\ last' = NoCall
    /\ UNCHANGED <<fs, today, ret, provided>>
    /\ UNCHANGED normVars

---------------------------------------------------------------------------
(* Text and numbers of the Offer Normalizer *)

NaN == "NaN"            \* a missing value in a column of strings
NaT == <<"NaN">>        \* a missing value in a column of text or of timedeltas

RECURSIVE Dec(_)
Dec(n) == IF n < 10 THEN <<Digits[n + 1]>> ELSE Dec(n \div 10) \o <<Digits[(n % 10) + 1]>>

(* the format specification :02 *)
Pad2(n) ==
    IF n < 0 THEN <<"-">> \o Dec(-n)
    ELSE IF n < 10 THEN <<"0">> \o Dec(n)
    ELSE Dec(n)

(* pd.to_timedelta of an ISO 8601 duration P[nD]T[nH][nM], in minutes;     *)
(* num is the number being read, -1 when none is                           *)
RECURSIVE IsoScan(_, _, _, _)
IsoScan(s, i, num, total) ==
    IF i > Len(s) THEN (IF num = -1 THEN [ok |-> TRUE, v |-> total] ELSE ValueError)
    ELSE IF IsDigit(s[i])
    THEN IsoScan(s, i + 1, (IF num = -1 THEN 0 ELSE num * 10) + DigitVal(s[i]), total)
    ELSE IF s[i] = "T" /\ num = -1 THEN IsoScan(s, i + 1, -1, total)
    ELSE IF s[i] = "D" /\ num # -1 THEN IsoScan(s, i + 1, -1, total + num * 24 * 60)
    ELSE IF s[i] = "H" /\ num # -1 THEN IsoScan(s, i + 1, -1, total + num * 60)
    ELSE IF s[i] = "M" /\ num # -1 THEN IsoScan(s, i + 1, -1, total + num)
    ELSE ValueError

IsoMinutes(s) ==
    IF Len(s) >= 2 /\ s[1] = "P" THEN IsoScan(s, 2, -1, 0) ELSE ValueError

(* pd.to_timedelta of "HH:MM:SS", in minutes *)
ClockMinutes(s) ==
    LET colons == {i \in 1..Len(s) : s[i] = ":"}
        c1 == CHOOSE i \in colons : \A j \in colons : i <= j
        c2 == CHOOSE i \in colons : \A j \in colons : j <= i
        hh == SubSeq(s, 1, c1 - 1)
        mm == SubSeq(s, c1 + 1, c2 - 1)
        ss == SubSeq(s, c2 + 1, Len(s))
    IN  IF Cardinality(colons) = 2 /\ AllDigits(hh) /\ AllDigits(mm) /\ AllDigits(ss)
           /\ hh # <<>> /\ mm # <<>> /\ ss # <<>>
        THEN [ok |-> TRUE, v |-> DigitsValue(hh) * 60 + DigitsValue(mm)]
        ELSE ValueError

(* the lambda of _format_duration on a timedelta of m minutes:             *)
(* components.days * 24 + components.hours, then components.minutes        *)
FormatMinutes(m) ==
    LET days_ == m \div (24 * 60)
        rest == m % (24 * 60)
    IN  Pad2(days_ * 24 + rest \div 60) \o <<":">> \o Pad2(rest % 60)

(* Series.round(): to the nearest whole, a half to the even neighbour *)
RoundHalfEven(p) ==
    LET q == p \div Unit
        r == p % Unit
    IN  IF 2 * r > Unit \/ (2 * r = Unit /\ q % 2 = 1) THEN (q + 1) * Unit ELSE q * Unit

(* iata_codes.json, as _get_iata_city_code loads it *)
iata_city == [code \in {"JFK", "TLV", "ATH"} |->
                CASE code = "JFK" -> "New York"
                  [] code = "TLV" -> "Tel Aviv"
                  [] code = "ATH" -> "Athens"]

(* Series.map(iata_city): a code that is no key, or missing, maps to NaN *)
MapCity(code) == IF code \in DOMAIN iata_city THEN iata_city[code] ELSE NaN

---------------------------------------------------------------------------
(* Tables: a DataFrame is its column labels and its rows, each row a tuple *)
(* of cells in the columns' order                                          *)

NoDf == [state |-> "unset", columns |-> <<>>, rows |-> <<>>]
NoneDf == [state |-> "None", columns |-> <<>>, rows |-> <<>>]
Table(columns, rows) == [state |-> "table", columns |-> columns, rows |-> rows]

Has(t, name) == \E i \in 1..Len(t.columns) : t.columns[i] = name
Idx(t, name) == CHOOSE i \in 1..Len(t.columns) : t.columns[i] = name
Cell(t, r, name) == t.rows[r][Idx(t, name)]

(* df[name] = values: the column is replaced, or added at the end *)
SetColumn(t, name, values) ==
    IF Has(t, name)
    THEN Table(t.columns,
               [r \in 1..Len(t.rows) |-> [t.rows[r] EXCEPT ![Idx(t, name)] = values[r]]])
    ELSE Table(Append(t.columns, name),
               [r \in 1..Len(t.rows) |-> Append(t.rows[r], values[r])])

Column(t, name) == [r \in 1..Len(t.rows) |-> Cell(t, r, name)]

Ok(t) == [err |-> "none", df |-> t]
Raise(e, t) == [err |-> e, df |-> t]

HEADER == <<"Currency", "Price", "Date", "Stops", "IATA_Origin", "IATA_Destination",
            "Duration", "IATA1_Origin", "IATA1_Destination", "Duration1",
            "Total_Duration">>

new_order == <<"Currency", "Price", "Date", "Stops", "Total_Duration", "Stop_Duration",
               "City_Origin", "IATA_Origin", "City_Destination", "IATA_Destination",
               "Duration", "IATA1_Destination", "City1_Destination", "Duration1">>

Numbers == {"Price", "Stops"}
Texts == {"Date", "Duration", "Duration1", "Total_Duration", "Stop_Duration"}

(* the name that tells what column i of t holds: its label, or before      *)
(* add_header its position in the raw line                                 *)
NameAt(t, i) ==
    IF t.columns[i] \in Numbers \cup Texts \cup {new_order[j] : j \in 1..Len(new_order)}
                        \cup {"IATA1_Origin", "City1_Origin"}
    THEN t.columns[i] ELSE HEADER[i]

---------------------------------------------------------------------------
(* FlightOfferProcessor.read_file: pd.read_csv(self.filepath)              *)

RECURSIVE Join(_)
Join(s) == IF s = <<>> THEN "" ELSE Head(s) \o Join(Tail(s))

RECURSIVE StripZeros(_)
StripZeros(s) ==
    IF Len(s) > 1 /\ s[Len(s)] = "0" THEN StripZeros(SubSeq(s, 1, Len(s) - 1)) ELSE s

(* a price as to_csv writes the float: "350.0", "400.01" *)
FloatText(p) ==
    LET frac == p % Unit
        four == SubSeq(<<"0", "0", "0">>, 1, 4 - Len(Dec(frac))) \o Dec(frac)
    IN  Join(Dec(p \div Unit) \o <<".">> \o StripZeros(four))

(* the text of the cells of a raw line *)
LineText(line) ==
    <<line[1], FloatText(line[2]), Join(line[3]), Join(Dec(line[4])), line[5], line[6],
      Join(line[7]), line[8], line[9], Join(line[10]), Join(line[11])>>

(* the labels read_csv makes of the first line: an empty field is          *)
(* "Unnamed: <position>", a repeated text gets ".<count>"                  *)
Labels(line) ==
    LET text == LineText(line)
        earlier(i) == Cardinality({j \in 1..(i - 1) : text[j] = text[i]})
    IN  [i \in 1..Len(text) |->
            IF text[i] = "" THEN "Unnamed: " \o Join(Dec(i - 1))
            ELSE IF earlier(i) > 0 THEN text[i] \o "." \o Join(Dec(earlier(i)))
            ELSE text[i]]

(* a data line as read: an empty field is a missing value *)
ReadLine(line) ==
    [i \in 1..Len(line) |->
        IF HEADER[i] \in Numbers THEN line[i]
        ELSE IF HEADER[i] \in Texts THEN (IF line[i] = <<>> THEN NaT ELSE line[i])
        ELSE IF line[i] = "" THEN NaN ELSE line[i]]

(* header='infer': the first line gives the labels, the others the rows *)
ReadCsv(f) ==
    Table(Labels(f.lines[1]),
          [r \in 1..(Len(f.lines) - 1) |-> ReadLine(f.lines[r + 1])])

read_file(f) ==
    IF ~f.exists THEN Ok(NoneDf)                       \* FileNotFoundError, caught
    ELSE IF f.lines = <<>> THEN Raise("EmptyDataError", NoDf)
    ELSE Ok(ReadCsv(f))

(* df.to_csv(filepath, index=False): the labels, then the rows, a missing  *)
(* value as an empty field                                                 *)
ToCsv(t) ==
    File(<<t.columns>> \o
         [r \in 1..Len(t.rows) |->
            [i \in 1..Len(t.columns) |->
                IF NameAt(t, i) \in Numbers THEN t.rows[r][i]
                ELSE IF NameAt(t, i) \in Texts
                THEN (IF t.rows[r][i] = NaT THEN <<>> ELSE t.rows[r][i])
                ELSE IF t.rows[r][i] = NaN THEN "" ELSE t.rows[r][i]]])

---------------------------------------------------------------------------
(* The steps of FlightOfferProcessor.process, each on a table *)

add_header(t) ==
    IF Len(t.columns) # Len(HEADER) THEN Raise("ValueError", t)
    ELSE Ok(Table(HEADER, t.rows))

HasAll(t, names) == \A i \in 1..Len(names) : Has(t, names[i])

iata2city(t) ==
    IF ~HasAll(t, <<"IATA_Origin", "IATA_Destination", "IATA1_Origin", "IATA1_Destination">>)
    THEN Raise("KeyError", t)
    ELSE LET mapped(name) == [r \in 1..Len(t.rows) |-> MapCity(Cell(t, r, name))]
             t1 == SetColumn(t, "City_Origin", mapped("IATA_Origin"))
             t2 == SetColumn(t1, "City_Destination", mapped("IATA_Destination"))
             t3 == SetColumn(t2, "City1_Origin", mapped("IATA1_Origin"))
         IN  Ok(SetColumn(t3, "City1_Destination", mapped("IATA1_Destination")))

Parses(values) == \A r \in 1..Len(values) : values[r] = NaT \/ IsoMinutes(values[r]).ok

(* _format_duration on a column of ISO durations *)
_format_duration(values) ==
    [r \in 1..Len(values) |->
        IF values[r] = NaT THEN NaT ELSE FormatMinutes(IsoMinutes(values[r]).v)]

process_duration(t) ==
    IF ~HasAll(t, <<"Duration", "Duration1", "Total_Duration">>) THEN Raise("KeyError", t)
    ELSE IF ~(Parses(Column(t, "Duration")) /\ Parses(Column(t, "Duration1"))
              /\ Parses(Column(t, "Total_Duration")))
    THEN Raise("ValueError", t)
    ELSE LET t1 == SetColumn(t, "Duration", _format_duration(Column(t, "Duration")))
             t2 == SetColumn(t1, "Duration1", _format_duration(Column(t, "Duration1")))
         IN  Ok(SetColumn(t2, "Total_Duration",
                          _format_duration(Column(t, "Total_Duration"))))

(* pd.to_datetime(...).dt.strftime('%Y-%m-%d %H:%M') of "YYYY-MM-DDTHH:MM:SS" *)
FormatDate(s) == SubSeq(s, 1, 10) \o <<" ">> \o SubSeq(s, 12, 16)

format_date(t) ==
    IF ~Has(t, "Date") THEN Raise("KeyError", t)
    ELSE Ok(SetColumn(t, "Date", [r \in 1..Len(t.rows) |-> FormatDate(Cell(t, r, "Date"))]))

(* column + ':00' needs a column of strings: a column without one string   *)
(* (every value missing, or no row) is not of that type                    *)
HoldsStrings(values) == \E r \in 1..Len(values) : values[r] # NaT

(* pd.to_timedelta(value + ':00'), in minutes; a missing value stays missing *)
Timedelta(v) ==
    IF v = NaT THEN [ok |-> FALSE, v |-> 0] ELSE ClockMinutes(v \o <<":", "0", "0">>)

(* Total_Duration - Duration - Duration1 of one row, formatted *)
StopDuration(total, duration, duration1) ==
    IF Timedelta(total).ok /\ Timedelta(duration).ok /\ Timedelta(duration1).ok
    THEN FormatMinutes(Timedelta(total).v - Timedelta(duration).v - Timedelta(duration1).v)
    ELSE NaT

get_stop_duration(t) ==
    IF ~HasAll(t, <<"Duration", "Duration1", "Total_Duration">>) THEN Raise("KeyError", t)
    ELSE IF ~(HoldsStrings(Column(t, "Total_Duration")) /\ HoldsStrings(Column(t, "Duration"))
              /\ HoldsStrings(Column(t, "Duration1")))
    THEN Raise("TypeError", t)
    ELSE Ok(SetColumn(t, "Stop_Duration",
                      [r \in 1..Len(t.rows) |->
                          StopDuration(Cell(t, r, "Total_Duration"), Cell(t, r, "Duration"),
                                       Cell(t, r, "Duration1"))]))

exchange_rate_100 == 414    \* exchange_rate = 4.14, in hundredths

ConvertsIfAnyEur(t) == \E r \in 1..Len(t.rows) : Cell(t, r, "Currency") = "EUR"

(* self.df['Currency'].eq('EUR').all() *)
AllEur(t) == \A r \in 1..Len(t.rows) : Cell(t, r, "Currency") = "EUR"

eur2ils(t) ==
    IF ~HasAll(t, <<"Currency", "Price">>) THEN Raise("KeyError", t)
    ELSE IF ~AllEur(t) THEN Ok(t)                      \* "Not all prices are in EUR!!!"
    ELSE LET t1 == SetColumn(t, "Price",
                     [r \in 1..Len(t.rows) |->
                         (Cell(t, r, "Price") * exchange_rate_100) \div 100])
         IN  Ok(SetColumn(t1, "Currency", [r \in 1..Len(t.rows) |-> "ILS"]))

round_price(t) ==
    IF ~Has(t, "Price") THEN Raise("KeyError", t)
    ELSE Ok(SetColumn(t, "Price",
                      [r \in 1..Len(t.rows) |-> RoundHalfEven(Cell(t, r, "Price"))]))

reorder_columns(t) ==
    IF ~HasAll(t, new_order) THEN Raise("KeyError", t)
    ELSE Ok(Table(new_order,
                  [r \in 1..Len(t.rows) |->
                      [c \in 1..Len(new_order) |-> Cell(t, r, new_order[c])]]))

StepNames == <<"add_header", "iata2city", "process_duration", "format_date",
               "get_stop_duration", "eur2ils", "round_price", "reorder_columns">>

(* the k-th step of process() *)
Step(k, t) ==
    CASE k = 1 -> add_header(t)
      [] k = 2 -> iata2city(t)
      [] k = 3 -> process_duration(t)
      [] k = 4 -> format_date(t)
      [] k = 5 -> get_stop_duration(t)
      [] k = 6 -> eur2ils(t)
      [] k = 7 -> round_price(t)
      [] k = 8 -> reorder_columns(t)

(* steps k.. of process(), stopping at the first that raises; n counts the *)
(* steps that were applied                                                 *)
RECURSIVE StepsFrom(_, _)
StepsFrom(k, t) ==
    IF k > Len(StepNames) THEN [err |-> "none", df |-> t, n |-> k - 1]
    ELSE LET r == Step(k, t)
         IN  IF r.err # "none" THEN [err |-> r.err, df |-> r.df, n |-> k - 1]
             ELSE StepsFrom(k + 1, r.df)

(* process() on self.df *)
process(t) ==
    IF t.state = "None"
    THEN [err |-> "none", df |-> t, n |-> 0]   \* "Warning: No DataFrame available."
    ELSE StepsFrom(1, t)

(* a step called on self.df = None: self.df.columns = ... or self.df[...] *)
StepOnNone(k) == IF k = 1 THEN "AttributeError" ELSE "TypeError"

SaveCsvOverwrites(f, t) ==
    IF t.state = "None" THEN [err |-> "AttributeError", file |-> f, wrote |-> FALSE]
    ELSE [err |-> "none", file |-> ToCsv(t), wrote |-> TRUE]

(* save_csv(filepath), f being the file at filepath *)
save_csv(f, t) ==
    IF f.exists
    THEN [err |-> "none", file |-> f, wrote |-> FALSE]   \* "Warning: ... already exists."
    ELSE IF t.state = "None"
    THEN [err |-> "AttributeError", file |-> f, wrote |-> FALSE]
    ELSE [err |-> "none", file |-> ToCsv(t), wrote |-> TRUE]

---------------------------------------------------------------------------
(* The Normalizer's operations *)

(* FlightOfferProcessor(RAW): self.df = self.read_file() *)
Construct ==
    /\ error = "none"
    /\ df.state = "unset"
    /\ LET r == read_file(fs[RAW])
       IN  /\ df' = r.df
           /\ error' = r.err
    /\ done' = 0
    /\ UNCHANGED <<fs, saves, writes>>
    /\ UNCHANGED fetchVars

Process ==
    /\ error = "none"
    /\ df.state # "unset"
    /\ LET r == process(df)
       IN  /\ df' = r.df
           /\ error' = r.err
           /\ done' = IF df.state = "None" THEN done ELSE r.n
    /\ UNCHANGED <<fs, saves, writes>>
    /\ UNCHANGED fetchVars

(* one step called by itself: on a table, the step that is next in         *)
(* process()'s order                                                       *)
CallStep ==
    /\ error = "none"
    /\ df.state # "unset"
    /\ \E k \in 1..Len(StepNames) :
        IF df.state = "None"
        THEN /\ error' = StepOnNone(k)
             /\ UNCHANGED <<df, done>>
        ELSE /\ k = done + 1
             /\ LET r == Step(k, df)
                IN  /\ df' = r.df
                    /\ error' = r.err
                    /\ done' = IF r.err = "none" THEN k ELSE done
    /\ UNCHANGED <<fs, saves, writes>>
    /\ UNCHANGED fetchVars

Save ==
    /\ error = "none"
    /\ df.state # "unset"
    /\ \E filepath \in Paths :
        /\ saves[filepath] < MaxSaves
        /\ LET r == save_csv(fs[filepath], df)
           IN  /\ fs' = [fs EXCEPT ![filepath] = r.file]
               /\ error' = r.err
               /\ saves' = [saves EXCEPT ![filepath] = @ + 1]
               /\ writes' = IF r.wrote
                            THEN [writes EXCEPT ![filepath] = Append(@, saves[filepath] + 1)]
                            ELSE writes
    /\ UNCHANGED <<df, done>>
    /\ UNCHANGED fetchVars

---------------------------------------------------------------------------

Init ==
    /\ fs = [p \in Paths |-> Absent]
    /\ today = Today
    /\ pc = "idle"
    /\ current_date = 0
    /\ end_date = 0
    /\ start_date = 0
    /\ ret = None
    /\ last = NoCall
    /\ provided = None
    /\ queries = <<>>
    /\ visited = <<>>
    /\ base = Absent
    /\ days = <<>>
    /\ df = NoDf
    /\ done = 0
    /\ error = "none"
    /\ saves = [p \in Paths |-> 0]
    /\ writes = [p \in Paths |-> <<>>]

Next ==
    \/ get_flight_offers
    \/ Returned_dropped
    \/ get_flights_within_dates
    \/ WithinDatesTurn
    \/ WithinDatesReturn

Spec == Init /\ [][Next]_vars

(* the lines the Fetcher writes *)
FetcherLines == {_add_offers_to_df(<<>>, <<o>>, max_price)[1] : o \in {x \in Offers : Accepted(x)}}

(* the raw files the Normalizer may find: none, an empty one (every call   *)
(* added no row), or lines of the Fetcher                                  *)
RawFiles == {Absent} \cup {File(l) : l \in SeqsUpTo(FetcherLines, MaxLines)}

NormInit ==
    /\ fs \in {f \in [Paths -> RawFiles \cup {File(<<new_order>>)}] :
                 f[RAW] \in RawFiles /\ f[REPORT] \in {Absent, File(<<new_order>>)}}
    /\ today = Today
    /\ pc = "idle"
    /\ current_date = 0
    /\ end_date = 0
    /\ start_date = 0
    /\ ret = None
    /\ last = NoCall
    /\ provided = None
    /\ queries = <<>>
    /\ visited = <<>>
    /\ base = Absent
    /\ days = <<>>
    /\ df = NoDf
    /\ done = 0
    /\ error = "none"
    /\ saves = [p \in Paths |-> 0]
    /\ writes = [p \in Paths |-> <<>>]

NormNext ==
    \/ Construct
    \/ Process
    \/ CallStep
    \/ Save

NormSpec == NormInit /\ [][NormNext]_vars

---------------------------------------------------------------------------
(* Properties of the Offer Fetcher *)

RECURSIVE Flatten(_)
Flatten(ss) == IF ss = <<>> THEN <<>> ELSE Head(ss).rows \o Flatten(Tail(ss))

DatesFromTo(a, b) == [i \in 1..(IF b >= a THEN b - a + 1 ELSE 0) |-> a + i - 1]

(* the lines the last top-level call added to the raw file *)
Added == SubSeq(fs[RAW].lines, Len(base.lines) + 1, Len(fs[RAW].lines))

Succeeded == pc = "returned" /\ last.outcome = "ok"

C2_ReturnsOnlyAccepted ==
    Succeeded => ret = Some(SelectSeq(provided.list, Accepted))

(* C2, amended: a successful call returns the provider's whole offer list, *)
(* unfiltered and in the provider's order, so the offers the filter        *)
(* dropped are in it too.                                                  *)
C2_ReturnsProviderList ==
    Succeeded => ret.some /\ ret.list = provided.list

C2_Witness ==
    /\ Succeeded
    /\ Len(Added) = 1
    /\ \E i \in 1..Len(ret.list) : ~Accepted(ret.list[i])

C4_Inv ==
    pc = "range" =>
        /\ visited = DatesFromTo(start_date, current_date - 1)
        /\ current_date <= end_date + 1 \/ current_date = start_date
        /\ Len(days) = Len(visited)
        /\ fs[RAW].lines = base.lines \o Flatten(days)
        /\ fs[RAW].exists <=> (base.exists \/ \E i \in 1..Len(days) : days[i].ok)
        /\ ENABLED (WithinDatesTurn \/ WithinDatesReturn)

C4_Step ==
    /\ pc = "range" /\ pc' = "idle" => visited = DatesFromTo(start_date, end_date)
    /\ pc = "range" /\ pc' = "range" =>
          /\ current_date' = current_date + 1
          /\ end_date' = end_date
          /\ end_date - current_date' < end_date - current_date
          /\ visited' = Append(visited, current_date)
          /\ last'.outcome \in {"past", "error"} => last'.absent /\ fs' = fs
          /\ last'.outcome = "ok" => fs'[RAW].exists

C9_SecondLegFields ==
    /\ \A i \in 1..Len(fs[RAW].lines) :
          LET line == fs[RAW].lines[i]
          IN  /\ line[4] \in {0, 1}
              /\ line[4] = 0 => line[8] = "" /\ line[9] = "" /\ line[10] = <<>>
              /\ line[4] = 1 => line[8] # "" /\ line[9] # "" /\ line[10] # <<>>
    /\ Succeeded =>
          LET accepted == SelectSeq(provided.list, Accepted)
          IN  \A i \in 1..Len(Added) :
                LET segments == accepted[i].itineraries[1].segments
                IN  /\ Added[i][4] = Len(segments) - 1
                    /\ Len(segments) = 2 =>
                          /\ Added[i][8] = segments[2].departure.iataCode
                          /\ Added[i][9] = segments[2].arrival.iataCode
                          /\ Added[i][10] = segments[2].duration

C9_Witness ==
    /\ Succeeded
    /\ Len(Added) = 2
    /\ Added[1][4] = 0 /\ Added[2][4] = 1

---------------------------------------------------------------------------
(* Properties of the Offer Normalizer, under NormSpec *)

Processed == df.state = "table" /\ done = Len(StepNames) /\ error = "none"

(* C5, as claimed: the table read from a raw file of n >= 1 lines holds n  *)
(* rows, the first line being data, and a report written from it holds a   *)
(* label line and n rows.                                                  *)
C5_OneRowPerRawLine ==
    /\ df.state = "table" => Len(df.rows) = Len(fs[RAW].lines)
    /\ writes[REPORT] # <<>> => Len(fs[REPORT].lines) = 1 + Len(fs[RAW].lines)

(* C6, as claimed: once the raw file was absent at the load, df stays None *)
(* and no later operation raises or writes a file.                         *)
C6_LoadFailedIsSafe ==
    df.state = "None" => error = "none" /\ \A p \in Paths : writes[p] = <<>>

(* C7: save_csv changes no file that exists; so of the save_csv calls on   *)
(* one path only the first can have written the file, and after a call     *)
(* with a table loaded the file exists and stays as it is.                 *)
C7_Inv ==
    \A p \in Paths :
        /\ writes[p] \in {<<>>, <<1>>}
        /\ df.state = "table" /\ saves[p] >= 1 => fs[p].exists

C7_Step ==
    \A p \in Paths :
        fs[p].exists => /\ writes'[p] = writes[p]
                        /\ fs'[p] = fs[p]

(* every step but a stuttering one changes df, done, error or saves *)
C7_SaveNeverOverwrites == [](C7_Inv) /\ [][C7_Step]_<<df, done, error, saves, writes>>

C7_Witness ==
    /\ saves[REPORT] = 2
    /\ writes[REPORT] = <<1>>
    /\ Processed
    /\ fs[REPORT] # ToCsv(df)

(* C8: eur2ils converts all rows or none.  When every row's currency is    *)
(* EUR each price becomes 4.14 times what it was and each currency ILS;    *)
(* when a row has another currency no price and no currency changes.       *)
(* Either way process() goes on: its prices end rounded and its columns in *)
(* the report's order.                                                     *)
(* a is b rounded to a multiple of step *)
Near(a, b, step) == 2 * (a - b) <= step /\ 2 * (b - a) <= step

C8_Step ==
    /\ df.state = "table" /\ done = 5 /\ done' = 6 =>
          /\ error' = "none"
          /\ Len(df'.rows) = Len(df.rows)
          /\ \A r \in 1..Len(df.rows) :
                IF \A q \in 1..Len(df.rows) : Cell(df, q, "Currency") = "EUR"
                THEN /\ 100 * Cell(df', r, "Price") = exchange_rate_100 * Cell(df, r, "Price")
                     /\ Cell(df', r, "Currency") = "ILS"
                ELSE /\ Cell(df', r, "Price") = Cell(df, r, "Price")
                     /\ Cell(df', r, "Currency") = Cell(df, r, "Currency")
    /\ df.state = "table" /\ done \in {0, 1} /\ done' = 8 =>
          /\ df'.columns = new_order
          /\ Len(df'.rows) = Len(df.rows)
          /\ \A r \in 1..Len(df.rows) :
                /\ Cell(df', r, "Price") % Unit = 0
                /\ IF \A q \in 1..Len(df.rows) : df.rows[q][1] = "EUR"
                   THEN /\ Near(100 * Cell(df', r, "Price"),
                                exchange_rate_100 * df.rows[r][2], 100 * Unit)
                        /\ Cell(df', r, "Currency") = "ILS"
                   ELSE /\ Near(Cell(df', r, "Price"), df.rows[r][2], Unit)
                        /\ Cell(df', r, "Currency") = df.rows[r][1]

C8_AllOrNothing == [][C8_Step]_vars

C8_Witness ==
    /\ Processed
    /\ \E r \in 1..Len(df.rows) : Cell(df, r, "Currency") = "USD"
    /\ \E r \in 1..Len(df.rows) : Cell(df, r, "Currency") = "EUR"

(* C10, as claimed: after process(), a row with no stop whose total        *)
(* duration is its leg's duration has the stop duration 00:00; its stop    *)
(* duration is missing only when the two durations differ.                 *)
C10_DirectStopDurationZero ==
    Processed =>
        \A r \in 1..Len(df.rows) :
            Cell(df, r, "Stops") = 0 /\ Cell(df, r, "Total_Duration") = Cell(df, r, "Duration")
                => Cell(df, r, "Stop_Duration") = <<"0", "0", ":", "0", "0">>

====
